---- MODULE Spec2Model ----
(***************************************************************************)
(* Model of the crypto analytics pipeline: the prices table filled by the  *)
(* collector, the indicator functions of scripts/analytics.py              *)
(* (CryptoAnalytics), the analytics table written by store_analytics, the   *)
(* collector of scripts/fetch_data.py and the polling loop of              *)
(* scripts/scheduler.py (CryptoDataScheduler).                             *)
(*                                                                         *)
(* Units.  A price is an integer number of thousandths of a dollar, so a   *)
(* price may carry more than two decimals, as the REAL column does.  An    *)
(* instant is an integer number of seconds.  A value that the code rounds  *)
(* with round(x, 2) is an integer number of hundredths.  Arithmetic is     *)
(* exact: the binary floating point error of the code is not modelled.     *)
(***************************************************************************)
EXTENDS Integers, Sequences, FiniteSets, TLC

VARIABLES
    prices,     \* rows of the prices table, in insertion order
    now,        \* the system clock
    pc,         \* "idle" | "returned" | "updated" | "analytics"
    call,       \* the function last called, with its arguments
    ret,        \* what a direct call of an indicator function returned
    report,     \* the dict returned by generate_comprehensive_analytics
    analytics,  \* rows of the analytics table
    failed_attempts,        \* CryptoDataScheduler.failed_attempts
    consecutive_failures,   \* CryptoDataScheduler.consecutive_failures
    loop        \* run_scheduler: "created" | "initial" | "polling" |
                \* "interrupted" | "crashed"

vars == <<prices, now, pc, call, ret, report, analytics,
          failed_attempts, consecutive_failures, loop>>

(* the state of the scheduler object *)
sched == <<failed_attempts, consecutive_failures, loop>>

----------------------------------------------------------------------------
(* Bounds of the model *)

MaxLen == 3         \* rows the collector appends to an initially empty table

(* Program constants *)

HOUR == 3600        \* timedelta(hours=1), in seconds
DAY == 86400        \* timedelta(days=1), in seconds
WEEK_DAYS == 7      \* days=7
MONTH_DAYS == 30    \* days=30
RSI_PERIOD == 14    \* calculate_rsi(df, period=14)
VOL_SCALE == 24     \* np.sqrt(24)

SYMBOL == "BTC"

----------------------------------------------------------------------------
(* Values: a float, None, or NaN *)

Num(x) == [k |-> "num", v |-> x]
None == [k |-> "none", v |-> 0]
NaN == [k |-> "nan", v |-> 0]
IsNum(x) == x.k = "num"

EmptyDict == [x \in {} |-> None]
IsEmptyDict(d) == DOMAIN d = {}

(* round(n/d, 0) for d > 0, ties to even, as Python's round *)
RoundHalfEven(n, d) ==
    LET q == n \div d
        r == n % d
    IN  IF 2 * r < d THEN q
        ELSE IF 2 * r > d THEN q + 1
        ELSE IF q % 2 = 0 THEN q ELSE q + 1

RECURSIVE SumPrices(_, _, _)
(* sum of df[i].price for i in lo..hi *)
SumPrices(df, lo, hi) ==
    IF lo > hi THEN 0 ELSE df[hi].price + SumPrices(df, lo, hi - 1)

(* df[df.index >= t] *)
Since(df, t) == SelectSeq(df, LAMBDA o : o.timestamp >= t)

RECURSIVE GCD(_, _)
GCD(a, b) == IF b = 0 THEN a ELSE GCD(b, a % b)

Abs(x) == IF x < 0 THEN -x ELSE x

(* round(n/d * 100, 0) for d > 0: the hundredths that round(n/d, 2) keeps *)
Round2(n, d) ==
    LET g == GCD(Abs(n), d)
    IN  IF n = 0 THEN 0 ELSE RoundHalfEven((n \div g) * 100, d \div g)

----------------------------------------------------------------------------
(* get_price_data: the rows of the symbol not older than `days`, in time     *)
(* order.  sqlnow is the clock as the query reads it.  Rows are inserted in *)
(* time order, so ORDER BY timestamp ASC keeps the insertion order.         *)
get_price_data(rows, sqlnow, days) == Since(rows, sqlnow - days * DAY)

(* df['price_usd'].rolling(window).mean().iloc[i]: <<sum, count>> of the    *)
(* window that ends at row i, defined once the window is full               *)
RollingSum(df, window, i) == SumPrices(df, i - window + 1, i)

(* a variant that averages the first rows of the frame, not the last *)
moving_averages_head(df, windows) ==
    IF df = <<>> THEN EmptyDict
    ELSE [w \in windows |->
            IF Len(df) >= w
            THEN Num(Round2(SumPrices(df, 1, w), w * 1000))
            ELSE None]

calculate_moving_averages(df, windows) ==
    IF df = <<>> THEN EmptyDict
    ELSE [w \in windows |->
            IF Len(df) >= w
            THEN Num(Round2(RollingSum(df, w, Len(df)), w * 1000))
            ELSE None]

(* a variant that leaves out the row exactly one lookback old *)
PercentageChange_strict(df, t, lookback) ==
    LET current_price == df[Len(df)].price
        data == SelectSeq(df, LAMBDA o : o.timestamp > t - lookback)
    IN  IF Len(data) >= 2
        THEN Num(Round2((current_price - data[1].price) * 100, data[1].price))
        ELSE None

(* a variant that reports the change of the price itself, in dollars *)
PercentageChange_absolute(df, t, lookback) ==
    LET current_price == df[Len(df)].price
        data == Since(df, t - lookback)
    IN  IF Len(data) >= 2
        THEN Num(Round2((current_price - data[1].price) * 100, 1000))
        ELSE None

(* one lookback of calculate_percentage_changes; t is datetime.now() as     *)
(* read for this lookback                                                   *)
PercentageChange(df, t, lookback) ==
    LET current_price == df[Len(df)].price
        data == Since(df, t - lookback)
    IN  IF Len(data) >= 2
        THEN Num(Round2((current_price - data[1].price) * 100, data[1].price))
        ELSE None

(* nows: the four readings of datetime.now(), in the order of the code *)
calculate_percentage_changes(df, nows) ==
    IF df = <<>> THEN EmptyDict
    ELSE [change_1h  |-> PercentageChange(df, nows[1], HOUR),
          change_24h |-> PercentageChange(df, nows[2], DAY),
          change_7d  |-> PercentageChange(df, nows[3], WEEK_DAYS * DAY),
          change_30d |-> PercentageChange(df, nows[4], MONTH_DAYS * DAY)]

(* strftime('%Y-%m-%d %H:%M'): the instant cut to its minute *)
FormatMinute(t) == t \div 60

RECURSIVE ArgMin(_, _)
(* idxmin: the first row holding the least price of rows 1..i *)
ArgMin(df, i) ==
    IF i = 1 THEN 1
    ELSE LET j == ArgMin(df, i - 1)
         IN  IF df[i].price < df[j].price THEN i ELSE j

RECURSIVE ArgMax(_, _)
ArgMax(df, i) ==
    IF i = 1 THEN 1
    ELSE LET j == ArgMax(df, i - 1)
         IN  IF df[i].price > df[j].price THEN i ELSE j

(* a variant that forgets to cut the frame to the period *)
min_max_whole_frame(df, t, days) ==
    IF df = <<>> THEN EmptyDict
    ELSE LET lo == ArgMin(df, Len(df))
             hi == ArgMax(df, Len(df))
         IN  [min_price |-> Round2(df[lo].price, 1000),
              max_price |-> Round2(df[hi].price, 1000),
              min_time  |-> FormatMinute(df[lo].timestamp),
              max_time  |-> FormatMinute(df[hi].timestamp)]

(* t is datetime.now() as read by this call *)
get_min_max_values(df, t, days) ==
    IF df = <<>> THEN EmptyDict
    ELSE LET period_data == Since(df, t - days * DAY)
         IN  IF period_data = <<>> THEN EmptyDict
             ELSE LET lo == ArgMin(period_data, Len(period_data))
                      hi == ArgMax(period_data, Len(period_data))
                  IN  [min_price |-> Round2(period_data[lo].price, 1000),
                       max_price |-> Round2(period_data[hi].price, 1000),
                       min_time  |-> FormatMinute(period_data[lo].timestamp),
                       max_time  |-> FormatMinute(period_data[hi].timestamp)]

(* prices.diff() split into gains and losses; row 1 has no delta (NaN), and *)
(* where(..., 0) turns it into 0                                            *)
Delta(df, i) == IF i = 1 THEN 0 ELSE df[i].price - df[i - 1].price
Gain(df, i) == IF Delta(df, i) > 0 THEN Delta(df, i) ELSE 0
Loss(df, i) == IF Delta(df, i) < 0 THEN -Delta(df, i) ELSE 0

RECURSIVE SumGain(_, _, _)
SumGain(df, lo, hi) == IF lo > hi THEN 0 ELSE Gain(df, hi) + SumGain(df, lo, hi - 1)
RECURSIVE SumLoss(_, _, _)
SumLoss(df, lo, hi) == IF lo > hi THEN 0 ELSE Loss(df, hi) + SumLoss(df, lo, hi - 1)

(* gain / loss in float arithmetic: x/0 is inf, 0/0 is NaN *)
FloatDiv(g, l) ==
    IF l = 0 THEN (IF g = 0 THEN [k |-> "nan"] ELSE [k |-> "inf"])
    ELSE [k |-> "rat", n |-> g, d |-> l]

(* a variant that computes 100 - 100 / rs *)
RsiOf_ratio(rs) ==
    IF rs.k = "nan" THEN None
    ELSE IF rs.k = "inf" THEN Num(100 * 100)
    ELSE IF rs.n = 0 THEN None
    ELSE Num(100 * 100 - Round2(100 * rs.d, rs.n))

(* 100 - (100 / (1 + rs)), rounded to 2 decimals unless NaN *)
RsiOf(rs) ==
    IF rs.k = "nan" THEN None
    ELSE IF rs.k = "inf" THEN Num(100 * 100)
    ELSE Num(100 * 100 - Round2(100 * rs.d, rs.d + rs.n))

(* the last value of 100 - (100 / (1 + gain / loss)) over the rolling means *)
(* of the last `period` gains and losses                                     *)
LastRsi(df, period) ==
    LET n == Len(df)
        g == SumGain(df, n - period + 1, n)
        l == SumLoss(df, n - period + 1, n)
        c == GCD(g, l)
    IN  IF c = 0 THEN RsiOf(FloatDiv(0, 0))
        ELSE RsiOf(FloatDiv(g \div c, l \div c))

(* a variant whose guard is one row short *)
rsi_short_guard(df, period) ==
    IF Len(df) < period THEN None ELSE LastRsi(df, period)

calculate_rsi(df, period) ==
    IF Len(df) < period + 1 THEN None ELSE LastRsi(df, period)

----------------------------------------------------------------------------
(* Natural numbers beyond the machine integer: least significant limb       *)
(* first, base 10000, no leading zero limb.  Used only to take the square   *)
(* root of the variance exactly.                                            *)

RECURSIVE BigOfNat(_)
BigOfNat(n) == IF n = 0 THEN <<>> ELSE <<n % 10000>> \o BigOfNat(n \div 10000)

RECURSIVE BigAddC(_, _, _)
BigAddC(a, b, carry) ==
    IF a = <<>> /\ b = <<>> THEN (IF carry = 0 THEN <<>> ELSE <<carry>>)
    ELSE LET x == IF a = <<>> THEN 0 ELSE Head(a)
             y == IF b = <<>> THEN 0 ELSE Head(b)
             s == x + y + carry
         IN  <<s % 10000>> \o BigAddC(IF a = <<>> THEN a ELSE Tail(a),
                                      IF b = <<>> THEN b ELSE Tail(b),
                                      s \div 10000)

BigAdd(a, b) == BigAddC(a, b, 0)

RECURSIVE BigNorm(_)
BigNorm(a) ==
    IF a = <<>> THEN a
    ELSE IF a[Len(a)] = 0 THEN BigNorm(SubSeq(a, 1, Len(a) - 1)) ELSE a

RECURSIVE BigSubB(_, _, _)
(* a - b - borrow, for a >= b + borrow; not normalised *)
BigSubB(a, b, borrow) ==
    IF a = <<>> THEN <<>>
    ELSE LET y == IF b = <<>> THEN 0 ELSE Head(b)
             d == Head(a) - y - borrow
         IN  <<d % 10000>> \o BigSubB(Tail(a),
                                      IF b = <<>> THEN b ELSE Tail(b),
                                      IF d < 0 THEN 1 ELSE 0)

BigSub(a, b) == BigNorm(BigSubB(a, b, 0))

RECURSIVE BigMulLimb(_, _, _)
(* a * m + carry, for a limb m *)
BigMulLimb(a, m, carry) ==
    IF a = <<>> THEN BigOfNat(carry)
    ELSE LET s == Head(a) * m + carry
         IN  <<s % 10000>> \o BigMulLimb(Tail(a), m, s \div 10000)

BigShift(a) == IF a = <<>> THEN a ELSE <<0>> \o a

RECURSIVE BigMul(_, _)
BigMul(a, b) ==
    IF a = <<>> \/ b = <<>> THEN <<>>
    ELSE BigAdd(BigMulLimb(a, Head(b), 0), BigShift(BigMul(a, Tail(b))))

RECURSIVE BigCmpFrom(_, _, _)
BigCmpFrom(a, b, i) ==
    IF i = 0 THEN 0
    ELSE IF a[i] < b[i] THEN -1
    ELSE IF a[i] > b[i] THEN 1
    ELSE BigCmpFrom(a, b, i - 1)

(* -1, 0 or 1 as a < b, a = b, a > b *)
BigCmp(a, b) ==
    IF Len(a) < Len(b) THEN -1
    ELSE IF Len(a) > Len(b) THEN 1
    ELSE BigCmpFrom(a, b, Len(a))

BigSquare(a) == BigMul(a, a)

(* sqrt(n/d) < v + 1/2, that is 4n < (2v+1)^2 d *)
SqrtBelowHalf(n4, d, v) == BigCmp(n4, BigMul(BigSquare(BigOfNat(2 * v + 1)), d)) < 0

RECURSIVE SqrtBracket(_, _, _)
SqrtBracket(n4, d, hi) ==
    IF SqrtBelowHalf(n4, d, hi) THEN hi ELSE SqrtBracket(n4, d, 2 * hi + 1)

RECURSIVE SqrtBisect(_, _, _, _)
(* the least v in lo..hi with sqrt(n/d) < v + 1/2, which hi satisfies *)
SqrtBisect(n4, d, lo, hi) ==
    IF lo = hi THEN lo
    ELSE LET mid == (lo + hi) \div 2
         IN  IF SqrtBelowHalf(n4, d, mid) THEN SqrtBisect(n4, d, lo, mid)
             ELSE SqrtBisect(n4, d, mid + 1, hi)

(* round(sqrt(n/d)), ties to even, for big naturals n and d > 0 *)
RoundSqrt(n, d) ==
    LET n4 == BigMulLimb(n, 4, 0)
        hi == SqrtBracket(n4, d, 1)
        v == SqrtBisect(n4, d, 0, hi)
        tie == v > 0 /\ BigCmp(n4, BigMul(BigSquare(BigOfNat(2 * v - 1)), d)) = 0
    IN  IF tie /\ v % 2 = 1 THEN v - 1 ELSE v

----------------------------------------------------------------------------
(* df['price_usd'].pct_change().dropna(): return i is                       *)
(* (price[i+1] - price[i]) / price[i], kept as a reduced fraction           *)
ReturnAt(df, i) ==
    LET n == df[i + 1].price - df[i].price
        d == df[i].price
        g == GCD(Abs(n), d)
    IN  [n |-> n \div g, d |-> d \div g]

PctChange(df) == [i \in 1..(Len(df) - 1) |-> ReturnAt(df, i)]

RECURSIVE DenProduct(_, _, _, _)
(* product of the denominators of returns lo..hi, leaving out return skip *)
DenProduct(rs, lo, hi, skip) ==
    IF lo > hi THEN <<1>>
    ELSE IF lo = hi THEN (IF lo = skip THEN <<1>> ELSE BigOfNat(rs[lo].d))
    ELSE LET mid == (lo + hi) \div 2
         IN  BigMul(DenProduct(rs, lo, mid, skip), DenProduct(rs, mid + 1, hi, skip))

(* |return i| over the common denominator DenProduct(rs, 1, Len(rs), 0) *)
Scaled(rs, i) == BigMul(BigOfNat(Abs(rs[i].n)), DenProduct(rs, 1, Len(rs), i))

RECURSIVE SumScaled(_, _, _, _)
(* sum of the scaled returns lo..hi of the given sign *)
SumScaled(rs, lo, hi, positive) ==
    IF lo > hi THEN <<>>
    ELSE IF lo = hi
         THEN (IF (rs[lo].n > 0) = positive THEN Scaled(rs, lo) ELSE <<>>)
    ELSE LET mid == (lo + hi) \div 2
         IN  BigAdd(SumScaled(rs, lo, mid, positive),
                    SumScaled(rs, mid + 1, hi, positive))

RECURSIVE SumSquares(_, _, _)
SumSquares(rs, lo, hi) ==
    IF lo > hi THEN <<>>
    ELSE IF lo = hi THEN BigSquare(Scaled(rs, lo))
    ELSE LET mid == (lo + hi) \div 2
         IN  BigAdd(SumSquares(rs, lo, mid), SumSquares(rs, mid + 1, hi))

(* returns.std() is the sample standard deviation (ddof = 1):               *)
(* var = (m * sum r^2 - (sum r)^2) / (m (m - 1)), as <<numerator,           *)
(* denominator>>; one return alone has no sample deviation (NaN)            *)
SampleVariance(rs) ==
    LET m == Len(rs)
        pos == SumScaled(rs, 1, m, TRUE)
        neg == SumScaled(rs, 1, m, FALSE)
        sum == IF BigCmp(pos, neg) >= 0 THEN BigSub(pos, neg) ELSE BigSub(neg, pos)
        den == DenProduct(rs, 1, m, 0)
    IN  <<BigSub(BigMulLimb(SumSquares(rs, 1, m), m, 0), BigSquare(sum)),
          BigMulLimb(BigSquare(den), m * (m - 1), 0)>>

(* round(returns.std() * np.sqrt(24) * 100, 2), in hundredths:              *)
(* round(sqrt(24 * var * 10^8)); NaN where the deviation is                 *)
ScaledStd(rs) ==
    IF Len(rs) < 2 THEN NaN
    ELSE LET var == SampleVariance(rs)
         IN  Num(RoundSqrt(BigMul(BigMulLimb(var[1], VOL_SCALE, 0),
                                  BigOfNat(100000000)),
                           var[2]))

----------------------------------------------------------------------------
(* The state machine *)

(* The instants the clock is observed at.  They put two rows within an     *)
(* hour, exactly an hour, just over an hour, within a day, exactly 7 days,  *)
(* within 30 days, exactly 30 days and more than 30 days apart; the last    *)
(* one is not a whole minute.                                               *)
Instants ==
    {0, 23 * DAY, 30 * DAY, 30 * DAY + HOUR, 30 * DAY + HOUR + 30}

(* Prices, in thousandths: 100.000, 110.000 and 6.875 *)
Prices == {100000, 110000, 6875}

Obs(p, t) == [symbol |-> SYMBOL, price |-> p, timestamp |-> t]

(* Series the specification names, each with the clock at its last row *)
Closes == <<100, 102, 101, 105, 110, 108, 112, 115>>
DailyCloses == [i \in 1..8 |-> Obs(Closes[i] * 1000, i * DAY)]
ConstantTwenty == [i \in 1..20 |-> Obs(100000, i * HOUR)]
(* 31 daily rows: 23 days at 100, then the eight closes *)
Month == [i \in 1..31 |->
            Obs((IF i <= 23 THEN 100 ELSE Closes[i - 23]) * 1000, (i - 1) * DAY)]
Scenarios == {DailyCloses, ConstantTwenty, Month}

PricesOf(df) == [i \in 1..Len(df) |-> df[i].price]

(* The price sequences a frame of the model can hold: what the collector    *)
(* appended, or the rows of a named series that are still in the window     *)
PriceSeqs ==
    UNION {[1..n -> Prices] : n \in 0..MaxLen}
    \cup UNION {{PricesOf(SubSeq(s, i, Len(s))) : i \in 1..Len(s)} : s \in Scenarios}

(* The volatility is a function of the prices alone: it is tabulated once   *)
(* over the price sequences of the model.                                   *)
VolatilityTable ==
    {[prices |-> ps,
      value  |-> ScaledStd(PctChange([i \in 1..Len(ps) |-> [price |-> ps[i]]]))] :
        ps \in PriceSeqs}

(* calculate_volatility(df, days): days is not used by the code *)
calculate_volatility(df, days) ==
    IF Len(df) < 2 THEN Num(0)
    ELSE (CHOOSE e \in VolatilityTable : e.prices = PricesOf(df)).value

----------------------------------------------------------------------------
(* generate_comprehensive_analytics.  r is the sequence of the eight clock  *)
(* readings the call makes, in program order: the SQL 'now' of              *)
(* get_price_data, the report's timestamp, the four lookbacks of            *)
(* calculate_percentage_changes, and the two get_min_max_values calls.      *)
(* An empty frame gives the empty dict.  The market_cap and volume_24h      *)
(* columns are passed through unchanged and are left out of the model.      *)
WINDOWS == {WEEK_DAYS, MONTH_DAYS}

(* the analytics dict of a frame that has a row *)
AnalyticsDict(df, r) ==
    [symbol             |-> SYMBOL,
     current_price      |-> Num(Round2(df[Len(df)].price, 1000)),
     timestamp          |-> r[2],
     moving_averages    |-> calculate_moving_averages(df, WINDOWS),
     percentage_changes |-> calculate_percentage_changes(df, SubSeq(r, 3, 6)),
     volatility_7d      |-> calculate_volatility(df, WEEK_DAYS),
     volatility_30d     |-> calculate_volatility(df, MONTH_DAYS),
     min_max_7d         |-> get_min_max_values(df, r[7], WEEK_DAYS),
     min_max_30d        |-> get_min_max_values(df, r[8], MONTH_DAYS),
     rsi_14             |-> calculate_rsi(df, RSI_PERIOD),
     data_points        |-> Len(df)]

(* a variant that answers an empty frame with a report of defaults *)
generate_default_report(rows, r) ==
    LET df == get_price_data(rows, r[1], MONTH_DAYS)
    IN  IF df = <<>>
        THEN [symbol             |-> SYMBOL,
              current_price      |-> Num(0),
              timestamp          |-> r[2],
              moving_averages    |-> calculate_moving_averages(df, WINDOWS),
              percentage_changes |-> calculate_percentage_changes(df, SubSeq(r, 3, 6)),
              volatility_7d      |-> calculate_volatility(df, WEEK_DAYS),
              volatility_30d     |-> calculate_volatility(df, MONTH_DAYS),
              min_max_7d         |-> get_min_max_values(df, r[7], WEEK_DAYS),
              min_max_30d        |-> get_min_max_values(df, r[8], MONTH_DAYS),
              rsi_14             |-> calculate_rsi(df, RSI_PERIOD),
              data_points        |-> 0]
        ELSE AnalyticsDict(df, r)

generate_comprehensive_analytics(rows, r) ==
    LET df == get_price_data(rows, r[1], MONTH_DAYS)
    IN  IF df = <<>> THEN EmptyDict ELSE AnalyticsDict(df, r)

(* f'ma_{window}d', the key of window w in the moving_averages dict *)
MaName(w) == "ma_" \o ToString(w) \o "d"

(* the rows store_analytics inserts: those of the metrics that are not None *)
Row(a, name, value, period) ==
    [symbol |-> a.symbol, metric_name |-> name, metric_value |-> value,
     time_period |-> period, timestamp |-> a.timestamp]

Inserts(a) ==
    {Row(a, MaName(w), a.moving_averages[w], "30d") :
        w \in {x \in DOMAIN a.moving_averages : a.moving_averages[x] # None}}
    \cup
    {Row(a, c, a.percentage_changes[c], "current") :
        c \in {x \in DOMAIN a.percentage_changes : a.percentage_changes[x] # None}}
    \cup
    (IF a.volatility_7d # None
     THEN {Row(a, "volatility", a.volatility_7d, "7d")} ELSE {})
    \cup
    (IF a.rsi_14 # None THEN {Row(a, "rsi", a.rsi_14, "14d")} ELSE {})

(* UNIQUE(symbol, metric_name, time_period, timestamp) *)
SameKey(x, y) ==
    /\ x.symbol = y.symbol
    /\ x.metric_name = y.metric_name
    /\ x.time_period = y.time_period
    /\ x.timestamp = y.timestamp

(* a variant that keeps what was written before the insert that raises *)
store_analytics_partial(a, table) ==
    IF IsEmptyDict(a) THEN table
    ELSE LET ins == {x \in Inserts(a) : x.metric_value # NaN}
         IN  {y \in table : \A x \in ins : ~SameKey(x, y)} \cup ins

(* store_analytics: the table after the call.  INSERT OR REPLACE drops the  *)
(* row of the same key.  A NaN is bound as NULL, metric_value is NOT NULL   *)
(* and has no default, so the insert raises; the handler rolls the whole    *)
(* transaction back.                                                        *)
store_analytics(a, table) ==
    IF IsEmptyDict(a) THEN table
    ELSE LET ins == Inserts(a)
         IN  IF \E x \in ins : x.metric_value = NaN THEN table
             ELSE {y \in table : \A x \in ins : ~SameKey(x, y)} \cup ins

----------------------------------------------------------------------------
NoCall == [fn |-> "none"]

Init ==
    /\ \/ prices = <<>> /\ now = 0
       \/ \E s \in Scenarios : prices = s /\ now = s[Len(s)].timestamp
    /\ pc = "idle"
    /\ call = NoCall
    /\ ret = None
    /\ report = EmptyDict
    /\ analytics = {}
    /\ failed_attempts = 0
    /\ consecutive_failures = 0
    /\ loop = "created"

(* the collector stores one reading of the symbol, stamped with the clock *)
Collect(p) ==
    /\ pc = "idle"
    /\ Len(prices) < MaxLen
    /\ prices' = Append(prices, Obs(p, now))
    /\ UNCHANGED <<now, pc, call, ret, report, analytics>>
    /\ UNCHANGED sched

(* time passes *)
Tick(t) ==
    /\ pc = "idle"
    /\ t > now
    /\ now' = t
    /\ UNCHANGED <<prices, pc, call, ret, report, analytics>>
    /\ UNCHANGED sched

(* the frame the indicator functions are called with *)
Frame == get_price_data(prices, now, MONTH_DAYS)

CallMovingAverages(w) ==
    /\ pc = "idle"
    /\ call' = [fn |-> "calculate_moving_averages", df |-> Frame, window |-> w]
    /\ ret' = calculate_moving_averages(Frame, {w})
    /\ pc' = "returned"
    /\ UNCHANGED <<prices, now, report, analytics>>
    /\ UNCHANGED sched

CallPercentageChanges ==
    /\ pc = "idle"
    /\ call' = [fn |-> "calculate_percentage_changes", df |-> Frame, now |-> now]
    /\ ret' = calculate_percentage_changes(Frame, <<now, now, now, now>>)
    /\ pc' = "returned"
    /\ UNCHANGED <<prices, now, report, analytics>>
    /\ UNCHANGED sched

CallVolatility(days) ==
    /\ pc = "idle"
    /\ call' = [fn |-> "calculate_volatility", df |-> Frame, days |-> days]
    /\ ret' = calculate_volatility(Frame, days)
    /\ pc' = "returned"
    /\ UNCHANGED <<prices, now, report, analytics>>
    /\ UNCHANGED sched

CallMinMax(days) ==
    /\ pc = "idle"
    /\ call' = [fn |-> "get_min_max_values", df |-> Frame, now |-> now, days |-> days]
    /\ ret' = get_min_max_values(Frame, now, days)
    /\ pc' = "returned"
    /\ UNCHANGED <<prices, now, report, analytics>>
    /\ UNCHANGED sched

CallRsi(period) ==
    /\ pc = "idle"
    /\ call' = [fn |-> "calculate_rsi", df |-> Frame, period |-> period]
    /\ ret' = calculate_rsi(Frame, period)
    /\ pc' = "returned"
    /\ UNCHANGED <<prices, now, report, analytics>>
    /\ UNCHANGED sched

(* the next instant the clock is observed at, if any *)
Later == {t \in Instants : t > now /\ \A u \in Instants : u > now => t <= u}

(* the clock readings of one call: the clock moves on at most once while    *)
(* the call runs, after reading k                                           *)
Readings(k, t) == [i \in 1..8 |-> IF i <= k THEN now ELSE t]

(* update_all_analytics for the symbol: generate the report and store it.  *)
(* get_all_symbols lists the symbol once the prices table has a row of it.  *)
UpdateAnalytics(k, t) ==
    /\ pc = "idle"
    /\ prices # <<>>
    /\ t >= now
    /\ LET a == generate_comprehensive_analytics(prices, Readings(k, t))
       IN  /\ report' = a
           /\ analytics' = store_analytics(a, analytics)
    /\ call' = [fn |-> "update_all_analytics", rows |-> prices, r |-> Readings(k, t)]
    /\ now' = t
    /\ pc' = "updated"
    /\ UNCHANGED <<prices, ret>>
    /\ UNCHANGED sched

(* the caller is done with the result *)
Return ==
    /\ pc = "returned"
    /\ pc' = "idle"
    /\ call' = NoCall
    /\ ret' = None
    /\ report' = EmptyDict
    /\ UNCHANGED <<prices, now, analytics>>
    /\ UNCHANGED sched

CallWindows == 1..(MaxLen + 1) \cup WINDOWS
CallPeriods == 1..MaxLen \cup {RSI_PERIOD}

Next ==
    \/ \E p \in Prices : Collect(p)
    \/ \E t \in Instants : Tick(t)
    \/ \E w \in CallWindows : CallMovingAverages(w)
    \/ CallPercentageChanges
    \/ \E d \in WINDOWS : CallVolatility(d)
    \/ \E d \in WINDOWS : CallMinMax(d)
    \/ \E p \in CallPeriods : CallRsi(p)
    \/ \E k \in 0..8, t \in {now} \cup Later : UpdateAnalytics(k, t)
    \/ Return

Spec == Init /\ [][Next]_vars

----------------------------------------------------------------------------
(* The collector: scripts/fetch_data.py *)

(* CRYPTOCURRENCIES, cut to two coins, in the order of the dict *)
Coins == <<"bitcoin", "ethereum">>
SymbolOf == [bitcoin |-> "BTC", ethereum |-> "ETH"]

(* What the API answers for a coin: no 'usd' key, 'usd': null, or a price *)
NoUsd(coin) == [coin |-> coin, has_usd |-> FALSE, usd |-> None]
NullUsd(coin) == [coin |-> coin, has_usd |-> TRUE, usd |-> None]
Usd(coin, p) == [coin |-> coin, has_usd |-> TRUE, usd |-> Num(p)]

(* the price the API quotes for each coin, in thousandths *)
FetchedPrice == [bitcoin |-> 100000, ethereum |-> 110000]
Entries(coin) == {NoUsd(coin), Usd(coin, FetchedPrice[coin])}

(* fetch_crypto_data: None when the request fails, else the parsed JSON,    *)
(* here the items of the dict in their order                                *)
ApiFailure == [ok |-> FALSE, items |-> <<>>]
Json(items) == [ok |-> TRUE, items |-> items]
Responses ==
    {ApiFailure, Json(<<>>)}
    \cup {Json(<<a, b>>) : a \in Entries(Coins[1]),
                            b \in Entries(Coins[2]) \cup {NullUsd(Coins[2])}}

RECURSIVE InsertFrom(_, _, _, _)
(* the for loop of store_crypto_data from item i on; rows is what the       *)
(* transaction has inserted so far.  A null price breaks NOT NULL on        *)
(* price_usd and the insert raises.                                         *)
InsertFrom(items, i, ts, rows) ==
    IF i > Len(items) THEN [ok |-> TRUE, rows |-> rows]
    ELSE IF ~items[i].has_usd THEN InsertFrom(items, i + 1, ts, rows)
    ELSE IF items[i].usd = None THEN [ok |-> FALSE, rows |-> rows]
    ELSE InsertFrom(items, i + 1, ts,
             Append(rows, [Obs(items[i].usd.v, ts) EXCEPT
                              !.symbol = SymbolOf[items[i].coin]]))

(* a variant that commits what was inserted before the insert that raises *)
store_crypto_data_no_rollback(data, table, ts) ==
    IF ~data.ok \/ data.items = <<>>
    THEN [ok |-> FALSE, table |-> table, stored_count |-> 0]
    ELSE LET r == InsertFrom(data.items, 1, ts, <<>>)
         IN  [ok |-> r.ok, table |-> table \o r.rows, stored_count |-> Len(r.rows)]

(* store_crypto_data: the returned value, the prices table after the call  *)
(* and stored_count, the inserts the call made; ts is the one reading of    *)
(* the clock that stamps the batch                                          *)
store_crypto_data(data, table, ts) ==
    IF ~data.ok \/ data.items = <<>>
    THEN [ok |-> FALSE, table |-> table, stored_count |-> 0]
    ELSE LET r == InsertFrom(data.items, 1, ts, <<>>)
         IN  [ok |-> r.ok,
              table |-> IF r.ok THEN table \o r.rows ELSE table,
              stored_count |-> Len(r.rows)]

(* fetch_and_store, on a database that has the current schema *)
fetch_and_store(data, table, ts) == store_crypto_data(data, table, ts)

----------------------------------------------------------------------------
(* update_all_analytics over the symbols of the prices table *)

AllSymbols == <<"BTC", "ETH">>

(* SELECT DISTINCT symbol FROM prices ORDER BY symbol *)
get_all_symbols(table) ==
    SelectSeq(AllSymbols, LAMBDA s : \E i \in 1..Len(table) : table[i].symbol = s)

(* WHERE symbol = ? *)
SymbolRows(table, s) == SelectSeq(table, LAMBDA o : o.symbol = s)

(* generate_comprehensive_analytics(symbol) *)
ReportOf(table, s, r) ==
    LET a == generate_comprehensive_analytics(SymbolRows(table, s), r)
    IN  IF IsEmptyDict(a) THEN a ELSE [a EXCEPT !.symbol = s]

RECURSIVE UpdateFrom(_, _, _, _, _)
(* the for loop of update_all_analytics from symbol i on; tbl is the        *)
(* analytics table.  store_analytics raises nothing.                        *)
UpdateFrom(symbols, i, table, tbl, r) ==
    IF i > Len(symbols) THEN tbl
    ELSE UpdateFrom(symbols, i + 1, table,
                    store_analytics(ReportOf(table, symbols[i], r), tbl), r)

update_all_analytics(table, tbl, r) ==
    UpdateFrom(get_all_symbols(table), 1, table, tbl, r)

----------------------------------------------------------------------------
(* The scheduler: scripts/scheduler.py *)

max_failures == 5       \* self.max_failures
INTERVAL == 5 * 60      \* interval_minutes=5, in seconds

MaxAttempts == 5        \* failed runs in a row that the model follows

Counters(f, c) == [failed_attempts |-> f, consecutive_failures |-> c]

(* a variant that never resets the counter *)
handle_failure_no_reset(s) ==
    Counters(s.failed_attempts + 1, s.consecutive_failures + 1)

handle_failure(s) ==
    LET c == s.consecutive_failures + 1
    IN  Counters(s.failed_attempts + 1, IF c >= max_failures THEN 0 ELSE c)

(* a variant that updates the analytics whatever the fetch gave *)
fetch_then_always_update(outcome, s) ==
    IF outcome = "success"
    THEN [counters |-> Counters(0, 0), update |-> TRUE]
    ELSE [counters |-> handle_failure(s), update |-> TRUE]

(* fetch_data_with_retry, given how fetch_and_store ended: "success"        *)
(* (returned True), "failure" (returned False) or "raised".  The result is  *)
(* the counters after the fetch and whether update_all_analytics is called. *)
fetch_data_with_retry(outcome, s) ==
    IF outcome = "success"
    THEN [counters |-> Counters(0, 0), update |-> TRUE]
    ELSE [counters |-> handle_failure(s), update |-> FALSE]

get_status == [total_failures |-> failed_attempts,
               consecutive_failures |-> consecutive_failures]

(* the instants the polling loop wakes at *)
PollInstants == {0, INTERVAL}

SchedInit ==
    /\ prices = <<>>
    /\ now = 0
    /\ pc = "idle"
    /\ call = NoCall
    /\ ret = None
    /\ report = EmptyDict
    /\ analytics = {}
    /\ failed_attempts = 0
    /\ consecutive_failures = 0
    /\ loop = "created"

(* run_scheduler registers the two jobs and goes on to the initial fetch *)
RunScheduler ==
    /\ loop = "created"
    /\ loop' = "initial"
    /\ UNCHANGED <<prices, now, pc, call, ret, report, analytics,
                   failed_attempts, consecutive_failures>>

(* fetch_data_with_retry up to the call of update_all_analytics: the        *)
(* initial fetch or the periodic job.  data is what the API answers;        *)
(* schema_error: create_database_schema raises, and so does fetch_and_store *)
(* before the API is asked                                                  *)
FetchDataWithRetry(data, schema_error) ==
    /\ loop \in {"initial", "polling"}
    /\ pc = "idle"
    /\ schema_error => data = ApiFailure
    /\ LET res == fetch_and_store(data, prices, now)
           outcome == IF schema_error THEN "raised"
                      ELSE IF res.ok THEN "success" ELSE "failure"
           run == fetch_data_with_retry(outcome,
                      Counters(failed_attempts, consecutive_failures))
       IN  /\ outcome = "success" => Len(res.table) <= MaxLen
           /\ outcome # "success" => failed_attempts < MaxAttempts
           /\ prices' = IF schema_error THEN prices ELSE res.table
           /\ failed_attempts' = run.counters.failed_attempts
           /\ consecutive_failures' = run.counters.consecutive_failures
           /\ pc' = IF run.update THEN "analytics" ELSE "idle"
           /\ loop' = IF run.update THEN loop ELSE "polling"
           /\ call' = [fn |-> "fetch_data_with_retry", outcome |-> outcome,
                       stored_count |-> IF schema_error THEN 0 ELSE res.stored_count,
                       update |-> IF run.update THEN "started" ELSE "none"]
    /\ UNCHANGED <<now, ret, report, analytics>>

(* the rest of fetch_data_with_retry: update_all_analytics inside its own   *)
(* try.  db_error: get_all_symbols raises; the handler logs it.             *)
UpdateAfterFetch(db_error) ==
    /\ loop \in {"initial", "polling"}
    /\ pc = "analytics"
    /\ analytics' = IF db_error THEN analytics
                    ELSE update_all_analytics(prices, analytics, Readings(8, now))
    /\ call' = [call EXCEPT !.update = IF db_error THEN "raised" ELSE "done"]
    /\ pc' = "idle"
    /\ loop' = "polling"
    /\ UNCHANGED <<prices, now, ret, report, failed_attempts, consecutive_failures>>

(* the hourly job, run by schedule.run_pending() inside the while loop.     *)
(* db_error: get_all_symbols raises, outside the try of                     *)
(* update_all_analytics; run_pending lets the exception through and the     *)
(* except Exception clause around the loop ends run_scheduler.              *)
HourlyJob(db_error) ==
    /\ loop = "polling"
    /\ pc = "idle"
    /\ analytics' = IF db_error THEN analytics
                    ELSE update_all_analytics(prices, analytics, Readings(8, now))
    /\ loop' = IF db_error THEN "crashed" ELSE loop
    /\ call' = [fn |-> "update_all_analytics_job",
                update |-> IF db_error THEN "raised" ELSE "done"]
    /\ UNCHANGED <<prices, now, pc, ret, report, failed_attempts, consecutive_failures>>

(* Ctrl+C while the loop sleeps: run_scheduler returns *)
Interrupt ==
    /\ loop = "polling"
    /\ pc = "idle"
    /\ loop' = "interrupted"
    /\ call' = NoCall
    /\ UNCHANGED <<prices, now, pc, ret, report, analytics,
                   failed_attempts, consecutive_failures>>

SchedNext ==
    \/ RunScheduler
    \/ \E data \in Responses, e \in BOOLEAN : FetchDataWithRetry(data, e)
    \/ \E e \in BOOLEAN : UpdateAfterFetch(e)
    \/ \E e \in BOOLEAN : HourlyJob(e)
    \/ Interrupt
    \/ \E t \in PollInstants : Tick(t)

SchedSpec == SchedInit /\ [][SchedNext]_vars

----------------------------------------------------------------------------
(* What the claims speak of, stated on the frame itself *)

RECURSIVE SumOver(_, _)
(* the sum of f over the indices in S *)
SumOver(f, S) ==
    IF S = {} THEN 0
    ELSE LET x == CHOOSE y \in S : TRUE IN f[x] + SumOver(f, S \ {x})

PriceAt(df) == [i \in 1..Len(df) |-> df[i].price]

(* v is n/d rounded to a nearest integer (d > 0) *)
Nearest(v, n, d) == 2 * Abs(n - v * d) <= d

(* the rows of df stamped within [t - lookback, t] *)
InWindow(df, t, lookback) ==
    {i \in 1..Len(df) : df[i].timestamp >= t - lookback /\ df[i].timestamp <= t}

Least(S) == CHOOSE i \in S : \A j \in S : i <= j

(* a metric is unavailable in a dict: the key is missing or holds None *)
Unavailable(d, key) == IF key \in DOMAIN d THEN d[key] = None ELSE TRUE
Available(d, key) == IF key \in DOMAIN d THEN IsNum(d[key]) ELSE FALSE

(* the frame a report was computed from *)
ReportFrame == get_price_data(call.rows, call.r[1], MONTH_DAYS)
Updated == pc = "updated" /\ call.fn = "update_all_analytics"
Called(fn) == pc = "returned" /\ call.fn = fn

(* the sums of the gains and of the losses over the last p steps of df *)
TrailingGain(df, p) ==
    SumOver([i \in 1..Len(df) |->
                IF i > 1 /\ df[i].price > df[i - 1].price
                THEN df[i].price - df[i - 1].price ELSE 0],
            (Len(df) - p + 1)..Len(df))
TrailingLoss(df, p) ==
    SumOver([i \in 1..Len(df) |->
                IF i > 1 /\ df[i].price < df[i - 1].price
                THEN df[i - 1].price - df[i].price ELSE 0],
            (Len(df) - p + 1)..Len(df))

----------------------------------------------------------------------------
(* C1: for every frame and window w, calculate_moving_averages reports      *)
(* ma_{w}d as unavailable when the frame has fewer than w rows, and         *)
(* otherwise the mean of the prices of the last w rows rounded to 2         *)
(* decimals; the 8 closes 100,102,101,105,110,108,112,115 with w = 7 give   *)
(* 107.57.                                                                  *)
MovingAverageOk(df, w, d) ==
    IF Len(df) < w THEN Unavailable(d, w)
    ELSE /\ Available(d, w)
         /\ Nearest(d[w].v, SumOver(PriceAt(df), (Len(df) - w + 1)..Len(df)), 10 * w)

C1_MovingAverage ==
    /\ Called("calculate_moving_averages") =>
          /\ MovingAverageOk(call.df, call.window, ret)
          /\ (call.df = DailyCloses /\ call.window = 7) => ret[7] = Num(10757)
    /\ Updated /\ ReportFrame # <<>> =>
          \A w \in WINDOWS : MovingAverageOk(ReportFrame, w, report.moving_averages)

C1_Witness ==
    /\ Called("calculate_moving_averages")
    /\ call.df = DailyCloses
    /\ call.window = 7
    /\ ret[7] = Num(10757)

(* C2: for each lookback L, calculate_percentage_changes reports            *)
(* (current - base) / base * 100 rounded to 2 decimals, current the price   *)
(* of the last row and base the price of the earliest row stamped           *)
(* >= now - L, and reports unavailable exactly when fewer than 2 rows fall  *)
(* within [now - L, now]; two rows one hour apart with prices 100 then 110, *)
(* now the last timestamp, give change_1h = 10.0.                           *)
ChangeOk(df, t, lookback, d, key) ==
    LET in == InWindow(df, t, lookback)
    IN  IF Cardinality(in) < 2 THEN Unavailable(d, key)
        ELSE LET base == df[Least(in)].price
                 current == df[Len(df)].price
             IN  /\ Available(d, key)
                 /\ Nearest(d[key].v, (current - base) * 10000, base)

ChangesOk(df, ts, d) ==
    /\ ChangeOk(df, ts[1], HOUR, d, "change_1h")
    /\ ChangeOk(df, ts[2], DAY, d, "change_24h")
    /\ ChangeOk(df, ts[3], 7 * DAY, d, "change_7d")
    /\ ChangeOk(df, ts[4], 30 * DAY, d, "change_30d")

HourApart(df) ==
    /\ Len(df) = 2
    /\ df[1].price = 100000 /\ df[2].price = 110000
    /\ df[2].timestamp = df[1].timestamp + 3600

C2_PercentageChange ==
    /\ Called("calculate_percentage_changes") =>
          /\ ChangesOk(call.df, <<call.now, call.now, call.now, call.now>>, ret)
          /\ (HourApart(call.df) /\ call.now = call.df[2].timestamp) =>
                ret.change_1h = Num(1000)
    /\ Updated /\ ReportFrame # <<>> =>
          ChangesOk(ReportFrame, SubSeq(call.r, 3, 6), report.percentage_changes)

C2_Witness ==
    /\ Called("calculate_percentage_changes")
    /\ HourApart(call.df)
    /\ call.now = call.df[2].timestamp
    /\ ret.change_1h = Num(1000)

(* C3, as claimed: calculate_rsi with period P reports unavailable whenever *)
(* the frame has fewer than P + 1 rows, and also whenever the trailing-P    *)
(* average loss is 0.                                                       *)
C3_AsClaimed ==
    Called("calculate_rsi") =>
        ((Len(call.df) < call.period + 1 \/ TrailingLoss(call.df, call.period) = 0)
            => ret = None)

(* C3, amended: calculate_rsi with period P reports unavailable exactly     *)
(* when the frame has fewer than P + 1 rows or the trailing-P average gain  *)
(* and average loss are both 0; when the average loss is 0 and the average  *)
(* gain is not, it reports 100.                                             *)
RsiOk(df, p, x) ==
    /\ (x = None) <=>
          \/ Len(df) < p + 1
          \/ TrailingLoss(df, p) = 0 /\ TrailingGain(df, p) = 0
    /\ (Len(df) >= p + 1 /\ TrailingLoss(df, p) = 0 /\ TrailingGain(df, p) > 0)
          => x = Num(10000)

C3_RsiUnavailable ==
    /\ Called("calculate_rsi") => RsiOk(call.df, call.period, ret)
    /\ Updated /\ ReportFrame # <<>> => RsiOk(ReportFrame, 14, report.rsi_14)

C3_Witness ==
    /\ Called("calculate_rsi")
    /\ Len(call.df) >= call.period + 1
    /\ TrailingLoss(call.df, call.period) = 0
    /\ TrailingGain(call.df, call.period) > 0
    /\ ret = Num(10000)

(* The metrics of a report, each with the tag that tells its period apart   *)
(* where the name alone does not, and its value                             *)
Metric(name, period, value) == [name |-> name, period |-> period, value |-> value]

MinMaxMetrics(d, period) ==
    IF IsEmptyDict(d) THEN {}
    ELSE {Metric("min_price", period, Num(d.min_price)),
          Metric("max_price", period, Num(d.max_price))}

ReportMetrics(a) ==
    IF IsEmptyDict(a) THEN {}
    ELSE {Metric(MaName(w), "", a.moving_averages[w]) : w \in DOMAIN a.moving_averages}
         \cup {Metric(c, "", a.percentage_changes[c]) : c \in DOMAIN a.percentage_changes}
         \cup {Metric("volatility", "7d", a.volatility_7d),
               Metric("volatility", "30d", a.volatility_30d),
               Metric("rsi", "14d", a.rsi_14)}
         \cup MinMaxMetrics(a.min_max_7d, "7d")
         \cup MinMaxMetrics(a.min_max_30d, "30d")

(* C4: for an empty Series the engine raises nothing and every metric of    *)
(* the Report is unavailable: no metric is reported as a number.            *)
C4_EmptySeries ==
    Updated /\ ReportFrame = <<>> =>
        {m \in ReportMetrics(report) : IsNum(m.value)} = {}

C4_Witness ==
    /\ Updated
    /\ call.rows # <<>>
    /\ ReportFrame = <<>>
    /\ IsEmptyDict(report)

(* C5, as claimed: in every Report a metric whose own data requirement is   *)
(* met is computed and reported as a number, whatever history the other     *)
(* metrics lack: a moving average with w rows, a change with 2 rows in its  *)
(* lookback, the volatility with 2 rows, min/max with a row in the window,  *)
(* the RSI with 15 rows and a trailing loss.                                *)
C5_AsClaimed ==
    Updated /\ ReportFrame # <<>> =>
        LET df == ReportFrame
            r == call.r
            ch == report.percentage_changes
        IN  /\ \A w \in WINDOWS :
                  Len(df) >= w => Available(report.moving_averages, w)
            /\ Cardinality(InWindow(df, r[3], HOUR)) >= 2 => Available(ch, "change_1h")
            /\ Cardinality(InWindow(df, r[4], DAY)) >= 2 => Available(ch, "change_24h")
            /\ Cardinality(InWindow(df, r[5], 7 * DAY)) >= 2 => Available(ch, "change_7d")
            /\ Cardinality(InWindow(df, r[6], 30 * DAY)) >= 2 => Available(ch, "change_30d")
            /\ Len(df) >= 2 => IsNum(report.volatility_7d) /\ IsNum(report.volatility_30d)
            /\ InWindow(df, r[7], 7 * DAY) # {} => ~IsEmptyDict(report.min_max_7d)
            /\ InWindow(df, r[8], 30 * DAY) # {} => ~IsEmptyDict(report.min_max_30d)
            /\ (Len(df) >= 15 /\ TrailingLoss(df, 14) > 0) => IsNum(report.rsi_14)

(* C6: whenever the RSI is reported as a number, it lies in 0..100.         *)
C6_RsiBounded ==
    /\ Called("calculate_rsi") /\ IsNum(ret) => 0 <= ret.v /\ ret.v <= 100 * 100
    /\ Updated /\ ReportFrame # <<>> /\ IsNum(report.rsi_14) =>
          0 <= report.rsi_14.v /\ report.rsi_14.v <= 100 * 100

C6_Witness ==
    /\ Called("calculate_rsi")
    /\ IsNum(ret)
    /\ 0 < ret.v /\ ret.v < 100 * 100

(* C7, as claimed: with a row inside the window, min_price is <= the price  *)
(* of every row stamped within the last W days and equals the price of one  *)
(* of them, and min_time is the timestamp of such a row; with no row in the *)
(* window the result is empty.  min_price is in hundredths, a price in      *)
(* thousandths; min_time is in minutes, a timestamp in seconds.             *)
C7_AsClaimed ==
    Called("get_min_max_values") =>
        LET df == call.df
            in == InWindow(df, call.now, call.days * DAY)
        IN  IF in = {} THEN IsEmptyDict(ret)
            ELSE /\ ~IsEmptyDict(ret)
                 /\ \A i \in in : ret.min_price * 10 <= df[i].price
                 /\ \E i \in in : /\ ret.min_price * 10 = df[i].price
                                  /\ ret.min_time * 60 = df[i].timestamp

(* C7, amended: with a row inside the window, min_price is the least price  *)
(* of the rows stamped within the last W days rounded to 2 decimals, and    *)
(* min_time is the timestamp, cut to its minute, of the first row that      *)
(* holds that least price; with no row in the window the result is empty.   *)
FirstLeast(df, in) ==
    CHOOSE i \in in :
        /\ \A j \in in : df[i].price <= df[j].price
        /\ \A j \in in : j < i => df[j].price > df[i].price

C7_MinOfWindow ==
    Called("get_min_max_values") =>
        LET df == call.df
            in == InWindow(df, call.now, call.days * DAY)
        IN  IF in = {} THEN IsEmptyDict(ret)
            ELSE /\ ~IsEmptyDict(ret)
                 /\ Nearest(ret.min_price, df[FirstLeast(df, in)].price, 10)
                 /\ ret.min_time * 60 <= df[FirstLeast(df, in)].timestamp
                 /\ df[FirstLeast(df, in)].timestamp < ret.min_time * 60 + 60

C7_Witness ==
    /\ Called("get_min_max_values")
    /\ InWindow(call.df, call.now, call.days * DAY) # {}
    /\ InWindow(call.df, call.now, call.days * DAY) # DOMAIN call.df
    /\ ~IsEmptyDict(ret)
    /\ \E i \in InWindow(call.df, call.now, call.days * DAY) :
          ret.min_price * 10 > call.df[i].price
    /\ ret.min_time * 60 <
          call.df[FirstLeast(call.df, InWindow(call.df, call.now, call.days * DAY))].timestamp

(* C8, as claimed: calculate_volatility reports 0 when the frame has fewer  *)
(* than 2 rows, and with 2 or more rows it reports a defined number: the    *)
(* sample standard deviation of the returns price_i / price_{i-1} - 1,      *)
(* scaled by sqrt(24), as a percentage rounded to 2 decimals.               *)
IsScaledStd(df, v) ==
    LET var == SampleVariance(PctChange(df))
        n4 == BigMul(BigMulLimb(var[1], 4 * 24, 0), BigOfNat(100000000))
    IN  /\ v >= 0
        /\ BigCmp(n4, BigMul(BigSquare(BigOfNat(2 * v + 1)), var[2])) <= 0
        /\ v > 0 => BigCmp(BigMul(BigSquare(BigOfNat(2 * v - 1)), var[2]), n4) <= 0

C8_AsClaimed ==
    Called("calculate_volatility") =>
        IF Len(call.df) < 2 THEN ret = Num(0)
        ELSE IsNum(ret) /\ IsScaledStd(call.df, ret.v)

(* C9, as claimed: the volatility is non-negative whenever it is defined,   *)
(* and for a constant-price Series it is exactly 0; a constant-price series *)
(* of length 20 gives volatility_7d = 0.0 with rsi_14 unavailable or 100.   *)
Constant(df) == \A i, j \in DOMAIN df : df[i].price = df[j].price

C9_AsClaimed ==
    /\ Called("calculate_volatility") =>
          /\ IsNum(ret) => ret.v >= 0
          /\ Constant(call.df) => ret = Num(0)
    /\ Updated /\ ReportFrame # <<>> /\ Constant(ReportFrame) =>
          /\ report.volatility_7d = Num(0)
          /\ Len(ReportFrame) = 20 => report.rsi_14 \in {None, Num(100 * 100)}

(* C10, as claimed: after store_analytics(Report) the analytics table holds *)
(* one record (symbol, metric_name, value, period tag, timestamp) for each  *)
(* metric that is present in the Report, and none for a metric that is      *)
(* unavailable in it.                                                       *)
RecordsOf(m) ==
    {x \in analytics :
        /\ x.symbol = report.symbol
        /\ x.timestamp = report.timestamp
        /\ x.metric_name = m.name
        /\ m.period # "" => x.time_period = m.period}

C10_AsClaimed ==
    Updated /\ ~IsEmptyDict(report) =>
        \A m \in ReportMetrics(report) :
            IF IsNum(m.value)
            THEN \E x \in RecordsOf(m) : RecordsOf(m) = {x} /\ x.metric_value = m.value
            ELSE RecordsOf(m) = {}

(* C11, as claimed: a Report is a function of the Series, one reference     *)
(* instant 'now' and the windows: every Report is the one computed with a   *)
(* single instant for the query, the timestamp, the four lookbacks and the  *)
(* two min/max windows, that instant being one the clock showed during the  *)
(* computation.                                                             *)
AtInstant(n) == [i \in 1..8 |-> n]

C11_AsClaimed ==
    Updated =>
        \E n \in {call.r[i] : i \in 1..8} :
            report = generate_comprehensive_analytics(call.rows, AtInstant(n))

(* C12: multiplying every price of the frame by a positive constant k       *)
(* leaves change_1h, change_24h, change_7d and change_30d unchanged,        *)
(* including which of them are unavailable.                                 *)
Scales == {2, 3, 7}
ScaleBy(df, k) == [i \in 1..Len(df) |-> [df[i] EXCEPT !.price = @ * k]]

C12_ScaleInvariant ==
    /\ Called("calculate_percentage_changes") =>
          \A k \in Scales :
              calculate_percentage_changes(ScaleBy(call.df, k),
                  <<call.now, call.now, call.now, call.now>>) = ret
    /\ Updated /\ ReportFrame # <<>> =>
          \A k \in Scales :
              calculate_percentage_changes(ScaleBy(ReportFrame, k),
                  SubSeq(call.r, 3, 6)) = report.percentage_changes

C12_Witness ==
    /\ Called("calculate_percentage_changes")
    /\ call.df # <<>>
    /\ ret.change_1h = None
    /\ IsNum(ret.change_30d) /\ ret.change_30d.v # 0
    /\ ret.change_30d.v % 100 # 0

----------------------------------------------------------------------------
(* What the claims on the collector and the scheduler speak of *)

FetchStep(data, e) == FetchDataWithRetry(data, e)
Fetched == call.fn = "fetch_data_with_retry"

(* one row for every coin of the response that carries a 'usd' price, all   *)
(* stamped ts                                                               *)
PricedItems(data) == SelectSeq(data.items, LAMBDA e : e.has_usd)
ExpectedRows(data, ts) ==
    [i \in 1..Len(PricedItems(data)) |->
        [symbol |-> SymbolOf[PricedItems(data)[i].coin],
         price |-> PricedItems(data)[i].usd.v,
         timestamp |-> ts]]

(* C13: between runs 0 <= consecutive_failures < max_failures; a successful *)
(* fetch sets consecutive_failures and failed_attempts to 0, a failure      *)
(* increments both by 1, and the failure that brings consecutive_failures   *)
(* to max_failures resets it to 0.                                          *)
C13_RetryCounter ==
    /\ [](pc = "idle" =>
            0 <= consecutive_failures /\ consecutive_failures < max_failures)
    /\ [][\A data \in Responses, e \in BOOLEAN :
            FetchStep(data, e) =>
                IF call'.outcome = "success"
                THEN failed_attempts' = 0 /\ consecutive_failures' = 0
                ELSE /\ failed_attempts' = failed_attempts + 1
                     /\ consecutive_failures' =
                            IF consecutive_failures + 1 = max_failures THEN 0
                            ELSE consecutive_failures + 1]_vars

C13_Witness ==
    /\ Fetched
    /\ call.outcome = "failure"
    /\ failed_attempts = max_failures
    /\ consecutive_failures = 0

(* C14, as claimed: the total_failures of get_status never decreases over   *)
(* any sequence of runs of fetch_data_with_retry.                           *)
C14_AsClaimed ==
    [][get_status'.total_failures >= get_status.total_failures]_vars

(* C15: the analytics update is started only when fetch_and_store returned  *)
(* success, with the fetched rows already in the prices table, and after    *)
(* every success; when the update raises, handle_failure is not called and  *)
(* both counters are 0 after the run.                                       *)
C15_UpdateAfterSuccess ==
    /\ [](pc = "analytics" => Fetched /\ call.outcome = "success")
    /\ [](Fetched /\ pc = "idle" =>
            (call.update # "none" <=> call.outcome = "success"))
    /\ [][\A data \in Responses, e \in BOOLEAN :
            FetchStep(data, e) /\ pc' = "analytics" =>
                prices' = prices \o ExpectedRows(data, now)]_vars
    /\ [][\A e \in BOOLEAN :
            UpdateAfterFetch(e) =>
                /\ failed_attempts' = 0 /\ consecutive_failures' = 0
                /\ e => call'.update = "raised" /\ loop' = "polling"]_vars

C15_Witness ==
    /\ Fetched
    /\ pc = "idle"
    /\ call.outcome = "success"
    /\ call.update = "raised"
    /\ call.stored_count > 0
    /\ failed_attempts = 0 /\ consecutive_failures = 0

(* C16, as claimed: the polling loop of run_scheduler is ended by nothing   *)
(* but a user interrupt, whatever a scheduled job raises; so the loop keeps *)
(* running and goes on to attempt fetches.                                  *)
C16_AsClaimed ==
    loop \notin {"created", "initial", "polling"} => loop = "interrupted"

WriteFails(a) == ~IsEmptyDict(a) /\ \E x \in Inserts(a) : x.metric_value = NaN
RecordsFor(tbl, s) == {x \in tbl : x.symbol = s}

StoredPerSymbol ==
    \A i \in 1..Len(get_all_symbols(prices)) :
        LET s == get_all_symbols(prices)[i]
            a == ReportOf(prices, s, Readings(8, now))
        IN  IF IsEmptyDict(a) \/ WriteFails(a)
            THEN RecordsFor(analytics', s) = RecordsFor(analytics, s)
            ELSE Inserts(a) \subseteq analytics'

C18_StoreAtomic ==
    [][/\ UpdateAfterFetch(FALSE) => StoredPerSymbol /\ call'.update = "done"
       /\ HourlyJob(FALSE) => StoredPerSymbol /\ call'.update = "done"
                              /\ loop' = "polling"]_vars

(* the write for BTC failed at this instant and left its older records,     *)
(* and the Report of ETH was stored                                         *)
C18_Witness ==
    /\ call.fn \in {"fetch_data_with_retry", "update_all_analytics_job"}
    /\ call.update = "done"
    /\ pc = "idle"
    /\ WriteFails(ReportOf(prices, "BTC", Readings(8, now)))
    /\ RecordsFor(analytics, "BTC") # {}
    /\ \A x \in RecordsFor(analytics, "BTC") : x.timestamp # now
    /\ \E x \in RecordsFor(analytics, "ETH") : x.timestamp = now


====
